---- MODULE Spec2Model ----
(***************************************************************************)
(* A model of detect_dip.py: the segment classifier detect_dip and the     *)
(* multi-scale discoverer find_all_dips, with the helpers they call.       *)
(*                                                                         *)
(* Numbers.  The program computes in binary floating point; the model      *)
(* computes in decimal fixed point.  A sample, a baseline, a depth, a MAD  *)
(* is an integer number of units of 1e-12, so that the two small constants *)
(* of the program are exact: 1e-12 is 1 unit and 1e-9 is 1000 units.  The  *)
(* samples of the series the model draws are multiples of SampleStep       *)
(* units.  A dimensionless quantity (alpha, a score, a confidence) is an   *)
(* integer number of units of 1/FRes.  Every division rounds to the        *)
(* nearest unit (RDiv, FDiv), as every floating point operation rounds to  *)
(* the nearest representable number.  math.exp, math.tanh and math.sqrt    *)
(* are computed to that resolution (ExpNeg, Tanh, ISqrt).                  *)
(*                                                                         *)
(* Indices are the program's: 0-based.  x[i] of the program is At(x, i),   *)
(* x[a:b] is Slice(x, a, b).                                               *)
(***************************************************************************)
EXTENDS Integers, Sequences, FiniteSets, TLC

\* ------------------------------------------------------------- numbers

\* The program's 1e-12 (added to local_mad in the confidence scores).
Eps12 == 1

\* The program's 1e-9 (the degenerate scale estimate).
Tiny == 1000

\* One sample step of the series the model draws: 7.56e-9.
SampleStep == 2520 * 3

\* The resolution of dimensionless quantities: 1/10000.
FRes == 100 * 100

Max2(a, b) == IF a >= b THEN a ELSE b

Min2(a, b) == IF a <= b THEN a ELSE b

Abs(a) == IF a < 0 THEN 0 - a ELSE a

\* a / b rounded to the nearest unit, b > 0.
RDiv(a, b) == (2 * a + b) \div (2 * b)

\* a / b for two quantities of the same unit, as a ratio in units of 1/FRes,
\* b > 0: long division, two decimal digits at a time.
FDiv(a, b) ==
    LET q0 == a \div b
        r0 == (a % b) * 100
        q1 == r0 \div b
        r1 == (r0 % b) * 100
    IN  q0 * FRes + q1 * 100 + RDiv(r1, b)

RECURSIVE ISqrtFrom(_, _)
ISqrtFrom(n, r) == IF (r + 1) * (r + 1) > n THEN r ELSE ISqrtFrom(n, r + 1)

RECURSIVE ISqrtScaled(_)
\* floor(sqrt(n)), n >= 0.
ISqrtScaled(n) ==
    IF n < 16 THEN ISqrtFrom(n, 0)
    ELSE LET r == 2 * ISqrtScaled(n \div 4)
         IN  IF (r + 1) * (r + 1) <= n THEN r + 1 ELSE r

ISqrt(n) == ISqrtScaled(n)

RECURSIVE ExpTaylor(_, _, _, _)
\* sum over i of (-w)^i / i!, from term i on; term is w^(i-1)/(i-1)!.
ExpTaylor(w, i, term, acc) ==
    LET t == RDiv(term * w, FRes * i)
    IN  IF t = 0 THEN acc
        ELSE ExpTaylor(w, i + 1, t, IF i % 2 = 1 THEN acc - t ELSE acc + t)

RECURSIVE ExpNeg(_)
\* math.exp(-w), w >= 0 in units of 1/FRes.
ExpNeg(w) ==
    IF w >= 20 * FRes THEN 0
    ELSE IF w <= FRes THEN ExpTaylor(w, 1, FRes, FRes)
    ELSE RDiv(ExpNeg(w \div 2) * ExpNeg(w - (w \div 2)), FRes)

\* math.tanh(z), z in units of 1/FRes.
Tanh(z) ==
    LET e == ExpNeg(2 * Abs(z))
        t == RDiv((FRes - e) * FRes, FRes + e)
    IN  IF z < 0 THEN 0 - t ELSE t

\* ----------------------------------------------------------- sequences

At(x, i) == x[i + 1]

\* x[a:b] for 0 <= a.
Slice(x, a, b) ==
    LET hi == Min2(b, Len(x))
    IN  IF a >= hi THEN << >> ELSE SubSeq(x, a + 1, hi)

RECURSIVE SumFrom(_, _, _)
\* s[lo] + ... + s[hi], by halves.
SumFrom(s, lo, hi) ==
    IF lo > hi THEN 0
    ELSE IF lo = hi THEN s[lo]
    ELSE LET mid == (lo + hi) \div 2
         IN  SumFrom(s, lo, mid) + SumFrom(s, mid + 1, hi)

\* sum(s).
Sum(s) == SumFrom(s, 1, Len(s))

\* The set of the elements of a sequence.
Range(s) == {s[i] : i \in 1..Len(s)}

\* min(s) and max(s), len(s) > 0.
SeqMin(s) == CHOOSE v \in Range(s) : \A w \in Range(s) : v <= w

SeqMax(s) == CHOOSE v \in Range(s) : \A w \in Range(s) : v >= w

\* sorted(s): the r-th element is the value with fewer than r elements
\* below it and at least r elements not above it.
Sorted(s) ==
    LET idx == 1..Len(s)
    IN  [r \in idx |->
            CHOOSE v \in Range(s) :
                /\ Cardinality({j \in idx : s[j] < v}) < r
                /\ r <= Cardinality({j \in idx : s[j] <= v})]

\* The first index (0-based) at which v occurs in s.
IndexOf(s, v) == CHOOSE i \in 0..(Len(s) - 1) :
    /\ At(s, i) = v
    /\ \A j \in 0..(i - 1) : At(s, j) # v

AbsDev(s, c) == [i \in 1..Len(s) |-> Abs(s[i] - c)]

\* ---------------------------------------------------- robust statistics

\* _median(v), len(v) > 0; the same value with and without numpy.
Median(v) ==
    LET s == Sorted(v)
        n == Len(s)
        m == n \div 2
    IN  IF n % 2 = 1 THEN At(s, m) ELSE RDiv(At(s, m - 1) + At(s, m), 2)

\* _trimmed_mean raises on a numpy array of two elements: "if values" asks an
\* array of more than one element for its truth value.
TrimmedMeanRaises(values, isArray) == isArray /\ Len(values) = 2

\* _trimmed_mean(values), trim_fraction = 0.1.
TrimmedMean(values) ==
    IF Len(values) < 3
    THEN IF Len(values) > 0 THEN RDiv(Sum(values), Len(values)) ELSE 0
    ELSE LET sorted_vals == Sorted(values)
             trim_count == Max2(1, Len(sorted_vals) \div 10)
             trimmed == Slice(sorted_vals, trim_count, Len(sorted_vals) - trim_count)
         IN  IF Len(trimmed) > 0
             THEN RDiv(Sum(trimmed), Len(trimmed))
             ELSE RDiv(Sum(values), Len(values))

\* _mad(v, med) with med given.
Mad(v, med) == IF Len(v) = 0 THEN 0 ELSE Median(AbsDev(v, med))

\* np.quantile(v, q4 / 4): linear interpolation between order statistics.
Quantile(v, q4) ==
    LET s == Sorted(v)
        pos4 == (Len(s) - 1) * q4
        lo == pos4 \div 4
        hi == Min2(lo + 1, Len(s) - 1)
    IN  At(s, lo) + RDiv((At(s, hi) - At(s, lo)) * (pos4 % 4), 4)

\* np.std(v): the population standard deviation.
Std(v) ==
    LET mean == RDiv(Sum(v), Len(v))
        sq == [i \in 1..Len(v) |-> (v[i] - mean) * (v[i] - mean)]
    IN  ISqrt(Sum([i \in 1..Len(v) |-> sq[i] \div Len(v)]))

\* The scale used when the MAD of the context is 0: with numpy IQR/1.349,
\* else std/1.4826, else 1e-9; without numpy the mean absolute deviation,
\* else 1e-9.
FallbackScale(local_ctx, np) ==
    IF np
    THEN LET iqr == Quantile(local_ctx, 3) - Quantile(local_ctx, 1)
             std == Std(local_ctx)
         IN  IF iqr > 0 THEN RDiv(iqr * 1000, 1349)
             ELSE IF std > 0 THEN RDiv(std * 10000, 14826)
             ELSE Tiny
    ELSE LET mean_val == RDiv(Sum(local_ctx), Len(local_ctx))
             ad == RDiv(Sum(AbsDev(local_ctx, mean_val)), Len(local_ctx))
         IN  IF ad # 0 THEN ad ELSE Tiny

\* ------------------------------------------------------------ detect_dip

\* A width gate record that does not say why.
WidthGateRecordNoReason(width, min_width) ==
    [width |-> width, min_width |-> min_width]

\* The record detect_dip returns at the width gate.
WidthGateRecord(width, min_width) ==
    [reason |-> "width_below_min", width |-> width, min_width |-> min_width]

\* is_ongoing: the segment ends within the last three samples, or nothing
\* follows it.
IsOngoing(N, end, post) == (end >= N - 3) \/ (Len(post) = 0)

\* local_ctx: pre, and post unless ongoing; the series without the segment
\* when that is shorter than max(5, min_width); the whole series when that
\* is shorter than 3.
LocalCtx(x, start, end, pre, post, is_ongoing, min_width) ==
    LET c1 == IF is_ongoing THEN pre ELSE pre \o post
        c2 == IF Len(c1) < Max2(5, min_width)
              THEN Slice(x, 0, start) \o Slice(x, end + 1, Len(x))
              ELSE c1
    IN  IF Len(c2) < 3 THEN x ELSE c2

\* The MAD of the context as it is, 0 included.
LocalMadNoFallback(local_ctx, local_med, np) == Mad(local_ctx, local_med)

\* local_mad: the MAD of the context around local_med, or the fallback scale
\* when that is 0.
LocalMad(local_ctx, local_med, np) ==
    LET m == Mad(local_ctx, local_med)
    IN  IF m = 0 THEN FallbackScale(local_ctx, np) ELSE m

\* alpha = 1 - math.exp(-N / float(n0)), n0 > 0.
Alpha(N, n0) == FRes - ExpNeg(RDiv(N * FRes, n0))

\* baseline: the larger centre for an ongoing segment or a locally elevated
\* one, else the alpha blend.
Baseline(is_ongoing, local_med, global_med, alpha) ==
    IF is_ongoing \/ local_med > global_med
    THEN Max2(local_med, global_med)
    ELSE RDiv(alpha * global_med + (FRes - alpha) * local_med, FRes)

\* depth_threshold = max(min_abs_depth, k * local_mad), k = k.n / k.d.
DepthThreshold(min_abs_depth, k, local_mad) ==
    Max2(min_abs_depth, RDiv(k.n * local_mad, k.d))

\* any(abs(v - baseline) <= eps2 / 2 for v in window).
AnyWithin(window, baseline, eps2) ==
    \E i \in 1..Len(window) : 2 * Abs(window[i] - baseline) <= eps2

\* sum(abs(v - seg_min) for v in half) / len(half).
MeanDist(half, seg_min) == RDiv(Sum(AbsDev(half, seg_min)), Len(half))

\* The monotonic-improvement fallback of the standard recovery check.
ImprovementRecovered(post, seg_min, depth) ==
    /\ Len(post) >= 5
    /\ LET post_first_half == Slice(post, 0, Len(post) \div 2)
           post_second_half == Slice(post, Len(post) \div 2, Len(post))
       IN  /\ Len(post_first_half) >= 2
           /\ Len(post_second_half) >= 2
           /\ 10 * (MeanDist(post_second_half, seg_min)
                     - MeanDist(post_first_half, seg_min)) >= 3 * depth

\* depth_ratio > c, depth_ratio = depth / depth_threshold if
\* depth_threshold > 0 else 0.
DepthRatioAbove(depth, depth_threshold, c) ==
    IF depth_threshold > 0 THEN depth > c * depth_threshold ELSE 0 > c

\* The guard of the recovery check.
RecoveryEvaluated(require_recovery, post) == require_recovery /\ Len(post) > 0

\* recovered.
Recovered(x, end, post, post_window, require_recovery, baseline, local_mad, seg_min, depth, depth_threshold) ==
    IF RecoveryEvaluated(require_recovery, post)
    THEN IF DepthRatioAbove(depth, depth_threshold, 3)
         THEN LET extended_post ==
                      Slice(x, end + 1, Min2(Len(x), end + 1 + post_window * 2))
              IN  \/ AnyWithin(extended_post, baseline, local_mad)
                  \/ /\ DepthRatioAbove(depth, depth_threshold, 5)
                     /\ AnyWithin(extended_post, baseline, 2 * local_mad)
         ELSE \/ AnyWithin(post, baseline, local_mad)
              \/ ImprovementRecovered(post, seg_min, depth)
    ELSE TRUE

\* confidence = max(0.0, min(1.0, math.tanh(raw_score / 3.0) * 1.2)).
Confidence(depth, area, prominence, local_mad, width) ==
    LET depth_score == FDiv(depth, local_mad + Eps12)
        area_score == FDiv(area, (local_mad + Eps12) * width)
        prom_score == FDiv(prominence, local_mad + Eps12)
        raw_score == RDiv(4 * depth_score + 3 * area_score + 3 * prom_score, 10)
    IN  Max2(0, Min2(FRes, RDiv(Tanh(RDiv(raw_score, 3)) * 12, 10)))

\* A verdict that looks at the depth alone.
VerdictDepthOnly(passes_depth, recovered) == passes_depth

\* is_dip = passes_depth and recovered.
Verdict(passes_depth, recovered) == passes_depth /\ recovered

\* The record detect_dip returns past the width gate, from its locals.
MetricsRecord(start, end, o, is_ongoing, local_med, local_mad, global_med, alpha, baseline, seg_min, seg_min_idx, depth, depth_threshold, prominence, area, recovered, confidence) ==
    LET passes_depth == depth >= depth_threshold
        is_dip == Verdict(passes_depth, recovered)
        metrics ==
            [start |-> start, end |-> end, width |-> end - start + 1,
             baseline |-> baseline, local_median |-> local_med,
             global_median |-> global_med, local_mad |-> local_mad,
             alpha |-> alpha, seg_min |-> seg_min,
             seg_min_index |-> seg_min_idx, depth |-> depth,
             depth_threshold |-> depth_threshold, prominence |-> prominence,
             area |-> area, recovered |-> recovered,
             is_ongoing |-> is_ongoing, confidence |-> confidence,
             is_dip |-> is_dip, k |-> o.k, min_abs_depth |-> o.min_abs_depth]
    IN  [raised |-> "none", is_dip |-> is_dip,
         metrics |-> IF ~passes_depth
                     THEN [reason |-> "depth_below_threshold"] @@ metrics
                     ELSE IF o.require_recovery /\ ~recovered
                     THEN [reason |-> "no_recovery"] @@ metrics
                     ELSE metrics]

\* detect_dip from the depth on: threshold, prominence, recovery, area and
\* confidence.
MetricsFromDepth(x, start, end, o, post, is_ongoing, local_med, local_mad, global_med, alpha, baseline, seg_min, seg_min_idx, left_ref, right_ref) ==
    LET depth == baseline - seg_min
        depth_threshold == DepthThreshold(o.min_abs_depth, o.k, local_mad)
        prominence == RDiv(left_ref + right_ref, 2) - seg_min
        width == end - start + 1
        area == width * baseline - Sum(Slice(x, start, end + 1))
    IN  MetricsRecord(start, end, o, is_ongoing, local_med, local_mad,
            global_med, alpha, baseline, seg_min, seg_min_idx, depth,
            depth_threshold, prominence, area,
            Recovered(x, end, post, o.post_window, o.require_recovery,
                      baseline, local_mad, seg_min, depth, depth_threshold),
            Confidence(depth, area, prominence, local_mad, width))

\* detect_dip from the baseline on: the segment's minimum and the reference
\* levels on either side.
MetricsFromBaseline(x, start, end, o, pre, post, is_ongoing, local_med, local_mad, global_med, alpha, baseline) ==
    LET segment == Slice(x, start, end + 1)
        seg_min == SeqMin(segment)
    IN  MetricsFromDepth(x, start, end, o, post, is_ongoing, local_med,
            local_mad, global_med, alpha, baseline, seg_min,
            start + IndexOf(segment, seg_min),
            IF Len(pre) > 0 THEN TrimmedMean(pre) ELSE baseline,
            IF Len(post) > 0 THEN TrimmedMean(post) ELSE baseline)

\* detect_dip from the local and global levels on: the scale of the local
\* context and the blended baseline.
MetricsFromLevels(x, start, end, o, np, pre, post, is_ongoing, local_ctx, local_med, global_med) ==
    LET alpha == Alpha(Len(x), o.n0)
    IN  MetricsFromBaseline(x, start, end, o, pre, post, is_ongoing,
            local_med, LocalMad(local_ctx, local_med, np), global_med, alpha,
            Baseline(is_ongoing, local_med, global_med, alpha))

\* The records detect_dip builds once the width gate is passed.
Metrics(x, start, end, o, np) ==
    LET N == Len(x)
        pre == Slice(x, Max2(0, start - o.pre_window), start)
        post == Slice(x, end + 1, Min2(N, end + 1 + o.post_window))
        is_ongoing == IsOngoing(N, end, post)
        local_ctx == LocalCtx(x, start, end, pre, post, is_ongoing, o.min_width)
        gc == Slice(x, 0, start) \o Slice(x, end + 1, N)
        global_ctx == IF Len(gc) = 0 THEN x ELSE gc
    IN  IF (np /\ Len(pre) > 0 /\ TrimmedMeanRaises(pre, np))
           \/ (np /\ Len(post) > 0 /\ TrimmedMeanRaises(post, np))
        THEN [raised |-> "ValueError"]
        ELSE MetricsFromLevels(x, start, end, o, np, pre, post, is_ongoing,
                 local_ctx, TrimmedMean(local_ctx), TrimmedMean(global_ctx))

\* The bounds check of detect_dip.
InvalidBounds(N, start, end) == start < 0 \/ end >= N \/ end < start

\* detect_dip(series, start, end, **o): what it raises, or the pair it returns.
\* np says whether numpy was imported.
DetectDip(series, start, end, o, np) ==
    IF InvalidBounds(Len(series), start, end)
    THEN [raised |-> "ValueError"]
    ELSE IF end - start + 1 < o.min_width
    THEN [raised |-> "none", is_dip |-> FALSE,
          metrics |-> WidthGateRecord(end - start + 1, o.min_width)]
    ELSE Metrics(series, start, end, o, np)

\* ----------------------------------------------------- find_local_minima

\* The index j the plateau loop stops at: x[i..j] all equal to x[i], and
\* j is the last index or x[j + 1] differs.
PlateauEnd(x, i) ==
    CHOOSE j \in i..(Len(x) - 1) :
        /\ \A m \in i..j : At(x, m) = At(x, i)
        /\ j = Len(x) - 1 \/ At(x, j + 1) # At(x, i)

\* The largest of init and x[lo], ..., x[hi - 1].
HigherIn(x, lo, hi, init) == SeqMax(<< init >> \o Slice(x, lo, hi))

\* The plateau x[i..j] is a minimum: strictly lower than both sides, or not
\* higher than either and strictly lower than one.
IsMin(x, i, j) ==
    LET N == Len(x)
        strict == (i = 0 \/ At(x, i) < At(x, i - 1))
                  /\ (j = N - 1 \/ At(x, i) < At(x, j + 1))
    IN  \/ strict
        \/ /\ i > 0
           /\ j < N - 1
           /\ At(x, i) <= At(x, i - 1)
           /\ At(x, i) <= At(x, j + 1)
           /\ (At(x, i) < At(x, i - 1) \/ At(x, i) < At(x, j + 1))

\* The prominence of the plateau x[i..j], reported at min_idx.
PlateauProminence(x, i, j, min_idx, proximity_range) ==
    LET N == Len(x)
        left0 == IF i > 0 THEN At(x, i - 1) ELSE At(x, min_idx)
        right0 == IF j < N - 1 THEN At(x, j + 1) ELSE At(x, min_idx)
        left_higher == HigherIn(x, Max2(0, i - proximity_range), i, left0)
        right_higher ==
            HigherIn(x, j + 1, Min2(N, j + proximity_range + 1), right0)
    IN  Min2(left_higher, right_higher) - At(x, min_idx)

\* One pass of the while loop of find_local_minima; st is [i, minima].
\* Past the end of the loop the state stays as it is.
InteriorStep(x, st, min_prominence, proximity_range) ==
    LET i == st.i
    IN  IF ~(i < Len(x) - 1) THEN st
        ELSE IF At(x, i) <= At(x, i - 1) /\ At(x, i) <= At(x, i + 1)
        THEN LET j == PlateauEnd(x, i)
                 min_idx == (i + j) \div 2
                 prom == PlateauProminence(x, i, j, min_idx, proximity_range)
             IN  [i |-> j + 1,
                  minima |->
                      IF IsMin(x, i, j) /\ prom >= min_prominence
                      THEN Append(st.minima,
                                  [idx |-> min_idx, val |-> At(x, min_idx),
                                   prom |-> prom])
                      ELSE st.minima]
        ELSE [st EXCEPT !.i = i + 1]

RECURSIVE InteriorSteps(_, _, _, _, _)
\* n passes of the while loop, by halves.
InteriorSteps(x, st, n, min_prominence, proximity_range) ==
    IF n = 0 THEN st
    ELSE IF n = 1 THEN InteriorStep(x, st, min_prominence, proximity_range)
    ELSE LET half == InteriorSteps(x, st, n \div 2, min_prominence,
                                   proximity_range)
         IN  IF ~(half.i < Len(x) - 1) THEN half
             ELSE InteriorSteps(x, half, n - n \div 2, min_prominence,
                                proximity_range)

\* The while loop of find_local_minima: it makes at most len(x) passes.
InteriorScan(x, min_prominence, proximity_range) ==
    InteriorSteps(x, [i |-> 1, minima |-> << >>], Len(x), min_prominence,
                  proximity_range).minima

\* The index the descent loop stops at, from j down: x descends strictly
\* from there up to j, and it is 0 or x does not descend into it.
DescentStart(x, j) ==
    CHOOSE d \in 0..j :
        /\ \A m \in (d + 1)..j : At(x, m) < At(x, m - 1)
        /\ d = 0 \/ ~(At(x, d) < At(x, d - 1))

\* The tail case of find_local_minima: a series descending into its last
\* sample gets a minimum there.
TailScan(x, min_prominence, proximity_range, minima) ==
    LET N == Len(x)
        last_idx == N - 1
    IN  IF N >= 3 /\ At(x, last_idx) < At(x, last_idx - 1)
        THEN LET j == DescentStart(x, last_idx - 1)
                 left0 == IF j > 0 THEN At(x, j) ELSE At(x, 0)
                 left_higher ==
                     HigherIn(x, Max2(0, j - proximity_range), j + 1, left0)
                 prom == left_higher - At(x, last_idx)
             IN  IF /\ last_idx - j >= 1
                    /\ prom >= min_prominence
                    /\ \A m \in 1..Len(minima) : minima[m].idx # last_idx
                 THEN Append(minima, [idx |-> last_idx,
                                      val |-> At(x, last_idx), prom |-> prom])
                 ELSE minima
        ELSE minima

\* find_local_minima(series, min_prominence, proximity_range).
FindLocalMinima(x, min_prominence, proximity_range) ==
    IF Len(x) < 3 THEN << >>
    ELSE TailScan(x, min_prominence, proximity_range,
                  InteriorScan(x, min_prominence, proximity_range))

\* ------------------------------------------------- expand_dip_boundaries

\* threshold_factor = 0.3, in units of 1/FRes.
ThresholdFactor == 3 * (FRes \div 10)

\* a / b as a ratio in units of 1/FRes, b # 0.
SignedFDiv(a, b) == IF b > 0 THEN FDiv(a, b) ELSE FDiv(0 - a, 0 - b)

\* depth / (baseline + 1e-9) divides a Python float by zero; a numpy float
\* divided by zero is inf.
ExpandRaises(x, min_idx, baseline, np) ==
    ~np /\ baseline - At(x, min_idx) > 0 /\ baseline + Tiny = 0

\* adaptive_factor; where the quotient is inf the smaller of the two is
\* threshold_factor.
AdaptiveFactor(depth, baseline) ==
    IF depth > 0 /\ baseline + Tiny # 0
    THEN Min2(ThresholdFactor,
              RDiv(ThresholdFactor * (FRes + SignedFDiv(depth, baseline + Tiny)),
                   FRes))
    ELSE ThresholdFactor

\* crossing_level = baseline - adaptive_factor * depth.
CrossingLevel(x, min_idx, baseline) ==
    LET depth == baseline - At(x, min_idx)
    IN  baseline - RDiv(AdaptiveFactor(depth, baseline) * depth, FRes)

\* The left loop, from index i down: one past the first index at or above
\* the crossing level, or 0 when there is none.
ExpandLeft(x, i, crossing_level) ==
    LET above == {m \in 0..i : At(x, m) >= crossing_level}
    IN  IF above = {} THEN 0
        ELSE (CHOOSE m \in above : \A w \in above : m >= w) + 1

\* The right loop, from index i up: one before the first index at or above
\* the crossing level, or the last index when there is none.
ExpandRight(x, i, crossing_level) ==
    LET above == {m \in i..(Len(x) - 1) : At(x, m) >= crossing_level}
    IN  IF above = {} THEN Len(x) - 1
        ELSE (CHOOSE m \in above : \A w \in above : m <= w) - 1

\* expand_dip_boundaries(series, min_idx, baseline) = (start, end).
ExpandDipBoundaries(x, min_idx, baseline) ==
    LET crossing_level == CrossingLevel(x, min_idx, baseline)
    IN  << ExpandLeft(x, min_idx - 1, crossing_level),
           ExpandRight(x, min_idx + 1, crossing_level) >>

\* --------------------------------------------------------- find_all_dips

\* An optional argument: << >> is None, << v >> is the value v.
IsNone(opt) == opt = << >>

\* pre_window, post_window when None: max(min_width, min(50, N // 4)).
AutoWindow(opt, N, min_width) ==
    IF IsNone(opt) THEN Max2(min_width, Min2(50, N \div 4)) ELSE opt[1]

\* A single scale for short series.
ShortSeriesScalesOne == << 1 >>

\* The scale factors analysed for short series when none are given.
ShortSeriesScales == << 1, 2 >>

\* The scale factors find_all_dips analyses.
ScaleFactors(N, multi_scale, scale_factors) ==
    IF multi_scale /\ IsNone(scale_factors)
    THEN IF N > 200 THEN << 1, 2, 4, 8 >>
         ELSE IF N > 50 THEN << 1, 2, 4 >>
         ELSE ShortSeriesScales
    ELSE IF ~multi_scale THEN << 1 >>
    ELSE scale_factors[1]

\* np.pad(x, pad, mode='edge').
EdgePad(x, pad) ==
    [i \in 1..pad |-> x[1]] \o x \o [i \in 1..pad |-> x[Len(x)]]

\* The moving median of width w over the edge-padded series.
MovingMedian(x, w) ==
    LET x_pad == EdgePad(x, w \div 2)
    IN  [i \in 1..Len(x) |-> Median(Slice(x_pad, i - 1, i - 1 + w))]

\* x_smooth at one scale: the moving median when numpy is there, the series
\* itself otherwise.
Smooth(x, effective_smoothing, np) ==
    IF effective_smoothing > 1 /\ np
    THEN MovingMedian(x, effective_smoothing)
    ELSE x

\* global_mad of the smoothed series, with its fallback (range / 6 or 1e-9).
GlobalMad(x_smooth) ==
    LET m == Mad(x_smooth, Median(x_smooth))
        r == RDiv(SeqMax(x_smooth) - SeqMin(x_smooth), 6)
    IN  IF m # 0 THEN m ELSE IF r # 0 THEN r ELSE Tiny

\* math.sqrt(scale_factor), in units of 1/FRes.
SqrtFx(scale_factor) == ISqrt(scale_factor * FRes * FRes)

\* min_prom = min_prominence_factor / sqrt(scale_factor) * global_mad.
MinProm(min_prominence_factor, scale_factor, global_mad) ==
    LET scale_prom_factor ==
            RDiv(min_prominence_factor.n * FRes * FRes,
                 min_prominence_factor.d * SqrtFx(scale_factor))
    IN  RDiv(scale_prom_factor * global_mad, FRes)

\* The elements of context, its last one left out, that are at or above
\* min_val + 0.5 * prom; twice_level is twice that level.
StableContext(context, twice_level) ==
    SelectSeq(SubSeq(context, 1, Len(context) - 1),
              LAMBDA v : 2 * v >= twice_level)

\* The context whose median is the local baseline of a minimum.
MinimumContext(x_smooth, m, pre_window, post_window) ==
    LET N == Len(x_smooth)
        tail == Slice(x_smooth, Max2(0, m.idx - pre_window * 2), m.idx)
        stable == StableContext(tail, 2 * m.val + m.prom)
        c == IF m.idx >= N - 2
             THEN IF Len(tail) > 3 /\ Len(stable) >= 3 THEN stable ELSE tail
             ELSE Slice(x_smooth, Max2(0, m.idx - pre_window), m.idx)
                  \o Slice(x_smooth, m.idx + 1, Min2(N, m.idx + post_window))
    IN  IF Len(c) < 3 THEN x_smooth ELSE c

\* scale_min_width = max(min_width, int(min_width * math.sqrt(scale_factor))).
ScaleMinWidth(min_width, scale_factor) ==
    Max2(min_width, ISqrt(min_width * min_width * scale_factor))

\* The options detect_dip is called with at one scale factor.
ScaleOptions(o, pre_window, post_window, scale_factor) ==
    [pre_window |-> pre_window, post_window |-> post_window,
     min_width |-> ScaleMinWidth(o.min_width, scale_factor), k |-> o.k,
     min_abs_depth |-> o.min_abs_depth,
     require_recovery |-> o.require_recovery, n0 |-> o.n0]

\* The segment a minimum of the smoothed series expands into.
CandidateSegment(x_smooth, m, pre_window, post_window) ==
    ExpandDipBoundaries(x_smooth, m.idx,
        Median(MinimumContext(x_smooth, m, pre_window, post_window)))

DetectionScale(scale_factor) ==
    IF scale_factor = 1 THEN "fast"
    ELSE IF scale_factor <= 2 THEN "medium" ELSE "slow"

\* What one detect_dip result r adds to the candidates of a scale:
\* [raised, cands].
CandidateFrom(r, scale_factor) ==
    IF r.raised # "none" THEN [raised |-> r.raised, cands |-> << >>]
    ELSE IF r.is_dip
    THEN [raised |-> "none",
          cands |-> << [scale_factor |-> scale_factor,
                        detection_scale |-> DetectionScale(scale_factor)]
                       @@ r.metrics >>]
    ELSE [raised |-> "none", cands |-> << >>]

\* detect_dip on the expanded segment seg = << start, end >>.
DetectSegment(series, seg, o, np) == DetectDip(series, seg[1], seg[2], o, np)

\* One pass of the loop over the minima of one scale: [raised, cands], the
\* candidate the minimum m gives, if any.
ClassifyMinimum(series, x_smooth, m, o, pre_window, post_window, scale_factor, np) ==
    IF ExpandRaises(x_smooth, m.idx,
           Median(MinimumContext(x_smooth, m, pre_window, post_window)), np)
    THEN [raised |-> "ZeroDivisionError", cands |-> << >>]
    ELSE CandidateFrom(
             DetectSegment(series,
                 CandidateSegment(x_smooth, m, pre_window, post_window),
                 ScaleOptions(o, pre_window, post_window, scale_factor), np),
             scale_factor)

RECURSIVE ClassifyMinima(_, _, _, _, _, _, _, _, _, _)
\* The loop over the minima lo..hi of one scale, by halves: the first
\* exception ends it.
ClassifyMinima(series, x_smooth, minima, lo, hi, o, pre_window, post_window, scale_factor, np) ==
    IF lo > hi THEN [raised |-> "none", cands |-> << >>]
    ELSE IF lo = hi
    THEN ClassifyMinimum(series, x_smooth, minima[lo], o, pre_window,
                         post_window, scale_factor, np)
    ELSE LET mid == (lo + hi) \div 2
             left == ClassifyMinima(series, x_smooth, minima, lo, mid, o,
                                    pre_window, post_window, scale_factor, np)
             right == ClassifyMinima(series, x_smooth, minima, mid + 1, hi, o,
                                     pre_window, post_window, scale_factor, np)
         IN  IF left.raised # "none" THEN left
             ELSE IF right.raised # "none" THEN right
             ELSE [raised |-> "none", cands |-> left.cands \o right.cands]

\* One pass of the loop over the scale factors: the candidates of one scale.
ScanScale(series, o, pre_window, post_window, scale_factor, np) ==
    LET N == Len(series)
        x_smooth == Smooth(series, Max2(1, o.smoothing_window * scale_factor),
                           np)
        min_prom == MinProm(o.min_prominence_factor, scale_factor,
                            GlobalMad(x_smooth))
        prominence_range == Min2(10 * scale_factor, N \div 4)
        minima == FindLocalMinima(x_smooth, min_prom, prominence_range)
    IN  ClassifyMinima(series, x_smooth, minima, 1, Len(minima), o,
                       pre_window, post_window, scale_factor, np)

RECURSIVE InsertByStart(_, _)
InsertByStart(d, s) ==
    IF s = << >> THEN << d >>
    ELSE IF d.start < Head(s).start THEN << d >> \o s
    ELSE << Head(s) >> \o InsertByStart(d, Tail(s))

RECURSIVE SortByStart(_)
\* all_candidates.sort(key=start): stable, ascending.  Built from the right
\* so that equal keys keep their order.
SortByStart(s) ==
    IF s = << >> THEN << >>
    ELSE LET n == Len(s)
         IN  InsertByStart(s[n], SortByStart(SubSeq(s, 1, n - 1)))

RECURSIVE InsertByConfidence(_, _)
InsertByConfidence(d, s) ==
    IF s = << >> THEN << d >>
    ELSE IF d.confidence > Head(s).confidence THEN << d >> \o s
    ELSE << Head(s) >> \o InsertByConfidence(d, Tail(s))

RECURSIVE SortByConfidence(_)
\* all_candidates.sort(key=confidence, reverse=True): stable, descending.
SortByConfidence(s) ==
    IF s = << >> THEN << >>
    ELSE LET n == Len(s)
         IN  InsertByConfidence(s[n], SortByConfidence(SubSeq(s, 1, n - 1)))

RECURSIVE SortedSet(_)
\* sorted(set).
SortedSet(S) ==
    IF S = {} THEN << >>
    ELSE LET m == CHOOSE v \in S : \A w \in S : v <= w
         IN  << m >> \o SortedSet(S \ {m})

\* A boost without the cap at 1.0.
BoostedUncapped(confidence, current_scales) ==
    IF Len(current_scales) > 1
    THEN RDiv(confidence * (10 + (Len(current_scales) - 1)), 10)
    ELSE confidence

\* The boost of a winner's confidence: applied when current_scales holds
\* more than one entry.
Boosted(confidence, current_scales) ==
    IF Len(current_scales) > 1
    THEN Min2(FRes, RDiv(confidence * (10 + (Len(current_scales) - 1)), 10))
    ELSE confidence

\* A winner as it is appended to merged.
Finalize(current, current_scales) ==
    [detected_at_scales |-> Cardinality(Range(current_scales)),
     scale_list |-> SortedSet(Range(current_scales))]
    @@ [current EXCEPT !.confidence = Boosted(@, current_scales)]

\* gap_tolerance = max(2, int(2 * math.sqrt(max of the two scale factors))).
GapTolerance(current, next_dip) ==
    Max2(2, ISqrt(4 * Max2(current.scale_factor, next_dip.scale_factor)))

\* An overlap test without the gap tolerance.
OverlapsWithoutGap(current, next_dip) == next_dip.start <= current.end

\* if next_dip['start'] <= current['end'] + gap_tolerance
Overlaps(current, next_dip) ==
    next_dip.start <= current.end + GapTolerance(current, next_dip)

\* next_dip['depth'] > current['depth'] * 1.1
SignificantlyDeeper(current, next_dip) ==
    10 * next_dip.depth > 11 * current.depth

\* abs(next_dip['depth'] - current['depth']) / current['depth'] < 0.1, where
\* the division does not raise: a numpy float divided by 0 is inf or nan.
SimilarDepth(current, next_dip) ==
    IF current.depth > 0
    THEN 10 * Abs(next_dip.depth - current.depth) < current.depth
    ELSE current.depth < 0

\* The similar-depth test divides a Python float by zero.
SimilarDepthRaises(current, np) == current.depth = 0 /\ ~np

\* One pass of the merge loop: st is [current, current_scales, merged,
\* raised].
MergeStep(st, next_dip, np) ==
    IF Overlaps(st.current, next_dip)
    THEN IF SignificantlyDeeper(st.current, next_dip)
         THEN [st EXCEPT !.current = next_dip,
                         !.current_scales = << next_dip.scale_factor >>]
         ELSE IF SimilarDepthRaises(st.current, np)
         THEN [st EXCEPT !.raised = "ZeroDivisionError"]
         ELSE IF SimilarDepth(st.current, next_dip)
         THEN [st EXCEPT !.current_scales = Append(@, next_dip.scale_factor)]
         ELSE st
    ELSE [st EXCEPT !.merged = Append(@, Finalize(st.current,
                                                  st.current_scales)),
                    !.current = next_dip,
                    !.current_scales = << next_dip.scale_factor >>]

\* The merge state before the loop; sorted_cands has more than one element.
MergeStart(sorted_cands) ==
    [current |-> sorted_cands[1],
     current_scales |-> << sorted_cands[1].scale_factor >>,
     merged |-> << >>, raised |-> "none"]

\* merged after the loop: the last winner appended.
MergeEnd(st) == Append(st.merged, Finalize(st.current, st.current_scales))

\* A single candidate is not merged.
SingleCandidate(c) ==
    [detected_at_scales |-> 1, scale_list |-> << c.scale_factor >>] @@ c

\* The cut to max_dips without the sort.
RankedUnsorted(winners, max_dips) ==
    SubSeq(winners, 1, Min2(max_dips, Len(winners)))

\* all_candidates[:max_dips] after the sort by confidence, max_dips >= 0.
Ranked(winners, max_dips) ==
    SubSeq(SortByConfidence(winners), 1, Min2(max_dips, Len(winners)))

\* The candidates of one scale r followed by those of the later scales:
\* the first exception ends the loop.
ScanJoin(r, rest) ==
    IF r.raised # "none" THEN r
    ELSE IF rest.raised # "none" THEN rest
    ELSE [raised |-> "none", cands |-> r.cands \o rest.cands]

RECURSIVE ScanFrom(_, _, _, _, _, _, _)
\* The loop over the scale factors from the i-th on.
ScanFrom(series, o, pre_window, post_window, scale_factors, i, np) ==
    IF i > Len(scale_factors) THEN [raised |-> "none", cands |-> << >>]
    ELSE ScanJoin(ScanScale(series, o, pre_window, post_window,
                            scale_factors[i], np),
                  ScanFrom(series, o, pre_window, post_window,
                           scale_factors, i + 1, np))

RECURSIVE MergeFrom(_, _, _, _)
\* The merge loop from the i-th sorted candidate on.
MergeFrom(st, sorted_cands, i, np) ==
    IF i > Len(sorted_cands) \/ st.raised # "none" THEN st
    ELSE MergeFrom(MergeStep(st, sorted_cands[i], np), sorted_cands, i + 1, np)

\* The merged winners of the kept candidates (more than none).
Merged(all_candidates, np) ==
    IF Len(all_candidates) > 1
    THEN LET st == MergeFrom(MergeStart(SortByStart(all_candidates)),
                             SortByStart(all_candidates), 2, np)
         IN  IF st.raised # "none"
             THEN [raised |-> st.raised, dips |-> << >>]
             ELSE [raised |-> "none", dips |-> MergeEnd(st)]
    ELSE [raised |-> "none", dips |-> << SingleCandidate(all_candidates[1]) >>]

\* find_all_dips after the merge: the sort by confidence and the cut.
RankMerged(merged, max_dips) ==
    IF merged.raised # "none" THEN merged
    ELSE [raised |-> "none", dips |-> Ranked(merged.dips, max_dips)]

\* find_all_dips after the loop over the scales.
MergeScanned(scanned, max_dips, np) ==
    IF scanned.raised # "none"
    THEN [raised |-> scanned.raised, dips |-> << >>]
    ELSE IF scanned.cands = << >> THEN [raised |-> "none", dips |-> << >>]
    ELSE RankMerged(Merged(scanned.cands, np), max_dips)

\* find_all_dips(series, **o): what it raises, or the list it returns.
FindAllDips(series, o, np) ==
    LET N == Len(series)
        pre_window == AutoWindow(o.pre_window, N, o.min_width)
        post_window == AutoWindow(o.post_window, N, o.min_width)
    IN  IF N < o.min_width THEN [raised |-> "none", dips |-> << >>]
        ELSE MergeScanned(
                 ScanFrom(series, o, pre_window, post_window,
                     ScaleFactors(N, o.multi_scale, o.scale_factors), 1, np),
                 o.max_dips, np)

\* ------------------------------------------------------------ the calls

\* The longest of the series enumerated in full.
MaxLen == 4

\* The sample levels of the enumerated series, in units of SampleStep.
Levels == {0, 1, 2}

\* A series given by its levels.
Scaled(levels) == [i \in 1..Len(levels) |-> levels[i] * SampleStep]

\* Every series of at most MaxLen samples over Levels.
ShortSeries ==
    UNION {[1..n -> {l * SampleStep : l \in Levels}] : n \in 0..MaxLen}

\* A flat series of n samples with one dip in it.
LongSeries(n) ==
    [i \in 1..n |-> (IF i \in 20..22 THEN 1 ELSE 3) * SampleStep]

\* Longer series: a tail dip, a constant series, several separate dips,
\* dips next to each other of the same depth, of a lesser and of a greater
\* depth, and series on each side of the lengths 50 and 200.
ScenarioSeries ==
    {Scaled(<< 5, 5, 5, 4, 3, 2 >>),
     Scaled(<< 5, 5, 5, 5, 5, 5, 5, 5, 5, 5 >>),
     Scaled(<< 2, 2, 0, 1, 0 >>),
     Scaled(<< 3, 0, 0, 3, 0, 1 >>),
     Scaled(<< 3, 2, 0, 3, 0, 1 >>),
     Scaled(<< 1, 0, 0, 1, 2, 3, 0, 1 >>),
     Scaled(<< 0, 0, 1, 3, 0, 3, 2, 1 >>),
     Scaled(<< 2, 0, 1, 0, 3, 3, 2, 2, 0 >>),
     Scaled(<< 3, 3, 1, 1, 3, 3, 0, 2, 3, 2, 1, 0 >>),
     Scaled(<< 2, 2, 3, 2, 0, 1, 1, 1, 1, 1, 3, 3, 3 >>),
     LongSeries(50), LongSeries(51), LongSeries(200), LongSeries(201)}

\* The values of k the calls are made with.
Ks == {[n |-> 0, d |-> 1], [n |-> 1, d |-> 4], [n |-> 1, d |-> 2],
       [n |-> 1, d |-> 1]}

\* k1 <= k2.
KLeq(k1, k2) == k1.n * k2.d <= k2.n * k1.d

\* The keyword defaults of detect_dip.
DetectDefaults ==
    [pre_window |-> 50, post_window |-> 50, min_width |-> 2,
     k |-> [n |-> 1, d |-> 4], min_abs_depth |-> 0,
     require_recovery |-> TRUE, n0 |-> 200]

\* The keyword defaults of find_all_dips.
FindDefaults ==
    [smoothing_window |-> 3, min_prominence_factor |-> [n |-> 3, d |-> 10],
     pre_window |-> << >>, post_window |-> << >>, min_width |-> 2,
     k |-> [n |-> 1, d |-> 4], min_abs_depth |-> 0,
     require_recovery |-> TRUE, n0 |-> 200, max_dips |-> 50,
     multi_scale |-> TRUE, scale_factors |-> << >>]

\* The options detect_dip is called with.
DetectOptions ==
    {[DetectDefaults EXCEPT !.k = k, !.require_recovery = rr,
                            !.min_width = mw, !.pre_window = w[1],
                            !.post_window = w[2]] :
        k \in Ks, rr \in BOOLEAN, mw \in {2, 3},
        w \in {<< 50, 50 >>, << 2, 1 >>}}

\* The options find_all_dips is called with: the defaults varied one
\* keyword at a time and together, and calls with windows and scale
\* factors of the caller's.
FindOptions ==
    {[FindDefaults EXCEPT !.k = k, !.multi_scale = ms, !.max_dips = md,
                          !.min_width = mw, !.scale_factors = sf] :
        k \in Ks, ms \in BOOLEAN, md \in {1, 50}, mw \in {2, 3},
        sf \in {<< >>, << << 4 >> >>}}
    \cup
    {[FindDefaults EXCEPT !.k = k, !.min_width = 3,
                          !.pre_window = << 5 >>, !.post_window = << 1 >>,
                          !.scale_factors = << << 4 >> >>] : k \in Ks}

\* The series detect_dip and find_all_dips are called with.
DetectSeries ==
    ShortSeries
    \cup {Scaled(<< 5, 5, 5, 4, 3, 2 >>),
          Scaled(<< 1, 1, 1, 1, 1, 2, 2 >>),
          Scaled(<< 5, 5, 5, 5, 5, 3, 3, 4 >>)}

FindSeries == ShortSeries \cup ScenarioSeries

\* The series find_local_minima is called with: the short ones, plateaus
\* in a valley, on a slope and at either end, and a descending tail.
MinimaSeries ==
    ShortSeries
    \cup {Scaled(<< 5, 0, 1, 1, 2 >>),
          Scaled(<< 2, 1, 1, 1, 1, 2 >>),
          Scaled(<< 1, 1, 1, 1, 2 >>),
          Scaled(<< 3, 1, 2, 1, 3, 2, 1 >>),
          Scaled(<< 3, 0, 0, 3, 3, 2, 1, 0 >>)}

\* The series expand_dip_boundaries is called with: the short ones that
\* have a sample, and series that go below 0.
ExpandSeries ==
    (ShortSeries \ {<< >>})
    \cup {Scaled(<< 0, -1, 0 >>),
          Scaled(<< 1, -2, -1, 0, -2 >>),
          Scaled(<< 3, 1, 2, 0, 2, 3 >>)}

\* The baselines expand_dip_boundaries is called with: below, at and
\* between the sample levels, and -1e-9.
ExpandBaselines ==
    {0 - SampleStep, 0 - Tiny, 0, SampleStep \div 2, SampleStep,
     2 * SampleStep, 3 * SampleStep}

\* The arguments of find_local_minima: the defaults, a floor of one sample
\* step, a reach of one sample.
MinimaOptions ==
    [min_prominence : {0, SampleStep}, proximity_range : {1, 10}]

\* ------------------------------------------------------ the state machine

VARIABLES
    call,            \* the call being made: function, series, arguments
    np,              \* whether numpy was imported
    pc,              \* where the call stands
    result,          \* what the call raised or returned
    pre_window,      \* find_all_dips: the windows after the adjustment
    post_window,
    scale_factors,   \* find_all_dips: the scale factors analysed
    scale_pos,       \* the position of the scale loop in scale_factors
    all_candidates,  \* find_all_dips: all_candidates
    merge,           \* the merge loop: current, current_scales, merged
    next_pos         \* the position of the merge loop in all_candidates

vars == << call, np, pc, result, pre_window, post_window, scale_factors,
           scale_pos, all_candidates, merge, next_pos >>

find_locals == << pre_window, post_window, scale_factors, scale_pos,
                  all_candidates, merge, next_pos >>

NoResult == [raised |-> "none"]

Raised(e) == [raised |-> e, dips |-> << >>]

Returned(dips) == [raised |-> "none", dips |-> dips]

\* What find_local_minima has in minima, or returns.
Minima(minima) == [raised |-> "none", minima |-> minima]

\* What expand_dip_boundaries returns.
Bounds(start_end) ==
    [raised |-> "none", start |-> start_end[1], end |-> start_end[2]]

\* A call of detect_dip, with bounds from one below the first index to one
\* past the last, a call of find_all_dips, a call of find_local_minima, or a
\* call of expand_dip_boundaries at an index of the series.
Init ==
    /\ \/ \E s \in DetectSeries, o \in DetectOptions :
            \E a \in -1..Len(s), b \in -1..Len(s) :
                call = [fn |-> "detect_dip", series |-> s, start |-> a,
                        end |-> b, o |-> o]
       \/ \E s \in FindSeries, o \in FindOptions :
            call = [fn |-> "find_all_dips", series |-> s, o |-> o]
       \/ \E s \in MinimaSeries, o \in MinimaOptions :
            call = [fn |-> "find_local_minima", series |-> s, o |-> o]
       \/ \E s \in ExpandSeries, b \in ExpandBaselines :
            \E m \in 0..(Len(s) - 1) :
                call = [fn |-> "expand_dip_boundaries", series |-> s,
                        min_idx |-> m, baseline |-> b]
    /\ np \in BOOLEAN
    /\ pc = "call"
    /\ result = NoResult
    /\ pre_window = 0
    /\ post_window = 0
    /\ scale_factors = << >>
    /\ scale_pos = 0
    /\ all_candidates = << >>
    /\ merge = [merged |-> << >>, raised |-> "none"]
    /\ next_pos = 0

\* detect_dip, from the call to the return or the exception.
Detect ==
    /\ pc = "call"
    /\ call.fn = "detect_dip"
    /\ result' = DetectDip(call.series, call.start, call.end, call.o, np)
    /\ pc' = IF result'.raised = "none" THEN "done" ELSE "raised"
    /\ UNCHANGED << call, np, find_locals >>

\* find_all_dips up to the loop over the scales: the length check, the
\* windows, the scale factors.
FindBegin ==
    /\ pc = "call"
    /\ call.fn = "find_all_dips"
    /\ IF Len(call.series) < call.o.min_width
       THEN /\ result' = Returned(<< >>)
            /\ pc' = "done"
            /\ UNCHANGED find_locals
       ELSE /\ pre_window' = AutoWindow(call.o.pre_window, Len(call.series),
                                        call.o.min_width)
            /\ post_window' = AutoWindow(call.o.post_window, Len(call.series),
                                         call.o.min_width)
            /\ scale_factors' = ScaleFactors(Len(call.series),
                                             call.o.multi_scale,
                                             call.o.scale_factors)
            /\ scale_pos' = 1
            /\ pc' = "scan"
            /\ UNCHANGED << result, all_candidates, merge, next_pos >>
    /\ UNCHANGED << call, np >>

\* One pass of the loop over the scales.
ScanOneScale ==
    /\ pc = "scan"
    /\ scale_pos <= Len(scale_factors)
    /\ \E r \in {ScanScale(call.series, call.o, pre_window, post_window,
                           scale_factors[scale_pos], np)} :
           IF r.raised # "none"
           THEN /\ result' = Raised(r.raised)
                /\ pc' = "raised"
                /\ UNCHANGED << all_candidates, scale_pos >>
           ELSE /\ all_candidates' = all_candidates \o r.cands
                /\ scale_pos' = scale_pos + 1
                /\ UNCHANGED << result, pc >>
    /\ UNCHANGED << call, np, pre_window, post_window, scale_factors, merge,
                    next_pos >>

\* After the loop over the scales: nothing found, one candidate, or the
\* sort by start that begins the merge.
ScanDone ==
    /\ pc = "scan"
    /\ scale_pos > Len(scale_factors)
    /\ IF all_candidates = << >>
       THEN /\ result' = Returned(<< >>)
            /\ pc' = "done"
            /\ UNCHANGED << all_candidates, merge, next_pos >>
       ELSE IF Len(all_candidates) > 1
       THEN /\ all_candidates' = SortByStart(all_candidates)
            /\ merge' = MergeStart(all_candidates')
            /\ next_pos' = 2
            /\ pc' = "merge"
            /\ UNCHANGED result
       ELSE /\ all_candidates' = << SingleCandidate(all_candidates[1]) >>
            /\ pc' = "rank"
            /\ UNCHANGED << result, merge, next_pos >>
    /\ UNCHANGED << call, np, pre_window, post_window, scale_factors,
                    scale_pos >>

\* One pass of the merge loop.
MergeOne ==
    /\ pc = "merge"
    /\ next_pos <= Len(all_candidates)
    /\ merge' = MergeStep(merge, all_candidates[next_pos], np)
    /\ IF merge'.raised # "none"
       THEN /\ result' = Raised(merge'.raised)
            /\ pc' = "raised"
            /\ UNCHANGED next_pos
       ELSE /\ next_pos' = next_pos + 1
            /\ UNCHANGED << result, pc >>
    /\ UNCHANGED << call, np, pre_window, post_window, scale_factors,
                    scale_pos, all_candidates >>

\* After the merge loop: the last winner is appended and merged replaces
\* all_candidates.
MergeDone ==
    /\ pc = "merge"
    /\ next_pos > Len(all_candidates)
    /\ all_candidates' = MergeEnd(merge)
    /\ pc' = "rank"
    /\ UNCHANGED << call, np, result, pre_window, post_window, scale_factors,
                    scale_pos, merge, next_pos >>

\* The sort by confidence and the cut to max_dips.
SortAndLimit ==
    /\ pc = "rank"
    /\ result' = Returned(Ranked(all_candidates, call.o.max_dips))
    /\ pc' = "done"
    /\ UNCHANGED << call, np, find_locals >>

\* find_local_minima up to the end of its while loop: the length check
\* and the scan of the interior.
MinimaInterior ==
    /\ pc = "call"
    /\ call.fn = "find_local_minima"
    /\ IF Len(call.series) < 3
       THEN /\ result' = Minima(<< >>)
            /\ pc' = "done"
       ELSE /\ result' = Minima(InteriorScan(call.series,
                                             call.o.min_prominence,
                                             call.o.proximity_range))
            /\ pc' = "tail"
    /\ UNCHANGED << call, np, find_locals >>

\* The tail case of find_local_minima, and the return.
MinimaTail ==
    /\ pc = "tail"
    /\ result' = Minima(TailScan(call.series, call.o.min_prominence,
                                 call.o.proximity_range, result.minima))
    /\ pc' = "done"
    /\ UNCHANGED << call, np, find_locals >>

\* expand_dip_boundaries, from the call to the return or the exception.
Expand ==
    /\ pc = "call"
    /\ call.fn = "expand_dip_boundaries"
    /\ IF ExpandRaises(call.series, call.min_idx, call.baseline, np)
       THEN /\ result' = Raised("ZeroDivisionError")
            /\ pc' = "raised"
       ELSE /\ result' = Bounds(ExpandDipBoundaries(call.series, call.min_idx,
                                                    call.baseline))
            /\ pc' = "done"
    /\ UNCHANGED << call, np, find_locals >>

Next ==
    \/ Expand
    \/ MinimaInterior
    \/ MinimaTail
    \/ Detect
    \/ FindBegin
    \/ ScanOneScale
    \/ ScanDone
    \/ MergeOne
    \/ MergeDone
    \/ SortAndLimit

Spec == Init /\ [][Next]_vars

\* ------------------------------------------------------------ properties

\* detect_dip has returned.
DetectReturned == pc = "done" /\ call.fn = "detect_dip"

\* find_all_dips has returned.
FindReturned == pc = "done" /\ call.fn = "find_all_dips"

\* The call of detect_dip passes the width gate.
PastWidthGate == call.end - call.start + 1 >= call.o.min_width

\* detect_dip on the segment of the call with another k.
WithK(k) ==
    DetectDip(call.series, call.start, call.end, [call.o EXCEPT !.k = k], np)

\* C1: monotonicity in k.  When detect_dip rejects a valid segment with
\* k = k1, it rejects it with every k2 >= k1 and the other options as they
\* are.
C1_MonotoneInK ==
    (DetectReturned /\ ~result.is_dip)
        => \A k2 \in Ks :
              KLeq(call.o.k, k2) /\ WithK(k2).raised = "none"
                  => ~WithK(k2).is_dip

\* C2: for a call that passes the bounds check and the width gate, is_dip
\* holds exactly when depth >= depth_threshold and (recovered or not
\* require_recovery), with the values of the returned record; the candidates
\* find_all_dips keeps are records of that kind with is_dip true.
C2_VerdictRule ==
    /\ (DetectReturned /\ PastWidthGate)
          => LET m == result.metrics
             IN  /\ result.is_dip = m.is_dip
                 /\ result.is_dip
                       <=> /\ m.depth >= m.depth_threshold
                           /\ (m.recovered \/ ~call.o.require_recovery)
    /\ \A i \in 1..Len(all_candidates) :
          LET m == all_candidates[i]
          IN  /\ m.is_dip
              /\ m.depth >= m.depth_threshold
              /\ (m.recovered \/ ~call.o.require_recovery)

\* A segment deep enough that is rejected because recovery is required and
\* has not happened.
C2_Witness ==
    /\ DetectReturned
    /\ PastWidthGate
    /\ result.metrics.depth >= result.metrics.depth_threshold
    /\ call.o.require_recovery
    /\ ~result.metrics.recovered
    /\ ~result.is_dip

\* C3: detect_dip raises ValueError exactly when start < 0, end >= N or
\* end < start; with valid bounds it returns a pair.
C3_ValueErrorExactlyOnInvalidBounds ==
    (call.fn = "detect_dip" /\ pc # "call")
        => /\ pc = "raised"
              <=> InvalidBounds(Len(call.series), call.start, call.end)
           /\ pc = "raised" => result.raised = "ValueError"

\* C4: find_all_dips never raises.
C4_FindAllDipsNeverFails == call.fn = "find_all_dips" => pc # "raised"

\* C5: detect_dip and find_all_dips give the same result, exception or
\* value, with numpy and without it.
C5_SameWithAndWithoutNumpy ==
    (pc \in {"done", "raised"})
        => result = IF call.fn = "detect_dip"
                    THEN DetectDip(call.series, call.start, call.end, call.o,
                                   ~np)
                    ELSE FindAllDips(call.series, call.o, ~np)

\* C6: a record with is_ongoing true has recovered true, and then is_dip is
\* depth >= depth_threshold.
C6_OngoingIsRecovered ==
    (DetectReturned /\ PastWidthGate /\ result.metrics.is_ongoing)
        => /\ result.metrics.recovered
           /\ result.is_dip
                 <=> result.metrics.depth >= result.metrics.depth_threshold

\* detect_dip on a segment of the series find_all_dips was called with: the
\* caller's k, min_abs_depth, require_recovery, n0 and min_width, and the
\* windows find_all_dips used.
Reclassified(d) ==
    DetectDip(call.series, d.start, d.end,
              [pre_window |-> pre_window, post_window |-> post_window,
               min_width |-> call.o.min_width, k |-> call.o.k,
               min_abs_depth |-> call.o.min_abs_depth,
               require_recovery |-> call.o.require_recovery,
               n0 |-> call.o.n0], np)

\* C7: every record find_all_dips returns has is_dip true, and detect_dip on
\* its segment alone says is_dip true again.
C7_Idempotent ==
    FindReturned
        => \A i \in 1..Len(result.dips) :
              /\ result.dips[i].is_dip
              /\ Reclassified(result.dips[i]).raised = "none"
              /\ Reclassified(result.dips[i]).is_dip

\* 0 <= confidence <= 1 in a record that has the field.
ConfidenceInRange(m) == 0 <= m.confidence /\ m.confidence <= FRes

\* Every record of a sequence has a confidence in range.
AllInRange(records) ==
    \A i \in 1..Len(records) :
        "confidence" \in DOMAIN records[i] /\ ConfidenceInRange(records[i])

\* C8 as stated: every record detect_dip returns for valid bounds, and every
\* record find_all_dips returns, has a confidence between 0 and 1.
C8_EveryRecordHasConfidence ==
    /\ DetectReturned
          => /\ "confidence" \in DOMAIN result.metrics
             /\ ConfidenceInRange(result.metrics)
    /\ FindReturned => AllInRange(result.dips)

\* C8, amended: every record detect_dip returns past the width gate has a
\* confidence between 0 and 1, and so has every candidate, every merged
\* winner after its boost and every record find_all_dips returns; the
\* record of the width gate has no confidence.
C8_ConfidenceInRange ==
    /\ DetectReturned
          => IF PastWidthGate
             THEN /\ "confidence" \in DOMAIN result.metrics
                  /\ ConfidenceInRange(result.metrics)
             ELSE "confidence" \notin DOMAIN result.metrics
    /\ AllInRange(all_candidates)
    /\ AllInRange(merge.merged)
    /\ FindReturned => AllInRange(result.dips)

\* The merge is over and its last winner, seen at several scales, has a
\* confidence the boost would take above 1.
C8_Witness ==
    /\ pc = "rank"
    /\ "current" \in DOMAIN merge
    /\ Len(merge.current_scales) > 1
    /\ merge.current.confidence * (10 + Len(merge.current_scales) - 1)
          > 10 * FRes
    /\ all_candidates[Len(all_candidates)].confidence = FRes

\* C9: the list find_all_dips returns is in non-increasing order of
\* confidence and holds min(max_dips, number of merged winners) of the
\* merged winners, none of the winners left out having a higher confidence
\* than one that is returned.
C9_RankedByConfidence ==
    FindReturned
        => LET dips == result.dips
               winners == all_candidates
               left_out == Range(winners) \ Range(dips)
           IN  /\ \A i \in 1..(Len(dips) - 1) :
                      dips[i].confidence >= dips[i + 1].confidence
               /\ Len(dips) <= call.o.max_dips
               /\ Len(dips) = Min2(call.o.max_dips, Len(winners))
               /\ Range(dips) \subseteq Range(winners)
               /\ Cardinality(Range(dips)) = Len(dips)
               /\ \A w \in left_out : \A d \in Range(dips) :
                      w.confidence <= d.confidence

\* Two winners, the later one the more confident, and room for one: it is
\* the one returned.
C9_Witness ==
    /\ FindReturned
    /\ Len(all_candidates) >= 2
    /\ all_candidates[1].confidence < all_candidates[2].confidence
    /\ call.o.max_dips = 1
    /\ Len(result.dips) = 1
    /\ result.dips[1].confidence > all_candidates[1].confidence

\* find_all_dips is past the choice of the scale factors.
ScalesChosen ==
    /\ call.fn = "find_all_dips"
    /\ pc # "call"
    /\ Len(call.series) >= call.o.min_width

C11_ScalePositive ==
    /\ (DetectReturned /\ PastWidthGate)
          => /\ result.metrics.local_mad > 0
             /\ call.o.k.n > 0 => result.metrics.depth_threshold > 0
    /\ \A i \in 1..Len(all_candidates) :
          /\ all_candidates[i].local_mad > 0
          /\ call.o.k.n > 0 => all_candidates[i].depth_threshold > 0

\* A segment in a constant series: MAD and every fallback estimate are 0,
\* and local_mad is the floor 1e-9.
C11_Witness ==
    /\ DetectReturned
    /\ PastWidthGate
    /\ \A i \in 1..Len(call.series) : call.series[i] = call.series[1]
    /\ result.metrics.local_mad = Tiny
    /\ call.o.k.n > 0
    /\ result.metrics.depth_threshold > 0

\* C12: a record detect_dip returns has a reason exactly when is_dip is
\* false: width_below_min when width < min_width, and then the record holds
\* nothing but reason, width and min_width; else depth_below_threshold when
\* depth < depth_threshold; else no_recovery when require_recovery holds and
\* recovered is false; else none.
C12_ReasonIffRejected ==
    DetectReturned
        => LET m == result.metrics
               has_reason == "reason" \in DOMAIN m
           IN  /\ has_reason <=> ~result.is_dip
               /\ IF ~PastWidthGate
                  THEN /\ m.reason = "width_below_min"
                       /\ DOMAIN m = {"reason", "width", "min_width"}
                  ELSE IF m.depth < m.depth_threshold
                  THEN has_reason /\ m.reason = "depth_below_threshold"
                  ELSE IF call.o.require_recovery /\ ~m.recovered
                  THEN has_reason /\ m.reason = "no_recovery"
                  ELSE ~has_reason

\* A segment deep enough that does not recover: rejected with no_recovery.
C12_Witness ==
    /\ DetectReturned
    /\ PastWidthGate
    /\ result.metrics.depth >= result.metrics.depth_threshold
    /\ ~result.metrics.recovered
    /\ ~result.is_dip
    /\ result.metrics.reason = "no_recovery"

\* The merge loop is over: merge holds the last winner as it was before it
\* was finalised, and all_candidates ends with it as finalised.
LastWinnerFinalised == pc = "rank" /\ "current" \in DOMAIN merge

\* C13: a finalised winner's confidence is its confidence before times
\* (1 + 0.1 * (s - 1)), capped at 1, with s = detected_at_scales the number
\* of distinct scale factors recorded for it; with one distinct scale the
\* confidence is unchanged.
C13_BoostCountsDistinctScales ==
    LastWinnerFinalised
        => LET w == all_candidates[Len(all_candidates)]
               s == w.detected_at_scales
           IN  /\ s = Cardinality(Range(merge.current_scales))
               /\ w.confidence
                     = Min2(FRes, RDiv(merge.current.confidence * (10 + s - 1),
                                       10))
               /\ s = 1 => w.confidence = merge.current.confidence

\* The first and the last index of the maximal run of equal values that
\* holds index idx of x.
RunStart(x, idx) ==
    CHOOSE a \in 0..idx :
        /\ \A m \in a..idx : At(x, m) = At(x, idx)
        /\ a = 0 \/ At(x, a - 1) # At(x, idx)

RunEnd(x, idx) == PlateauEnd(x, idx)

\* The run of equal values that holds idx is a local minimum: no sample
\* next to it is lower and one is strictly higher.
TrueMinimum(x, idx) ==
    LET a == RunStart(x, idx)
        b == RunEnd(x, idx)
        N == Len(x)
    IN  /\ a = 0 \/ At(x, a - 1) >= At(x, idx)
        /\ b = N - 1 \/ At(x, b + 1) >= At(x, idx)
        /\ \/ a > 0 /\ At(x, a - 1) > At(x, idx)
           \/ b < N - 1 /\ At(x, b + 1) > At(x, idx)

\* The while loop of find_local_minima is over.
InteriorScanned == call.fn = "find_local_minima" /\ pc = "tail"

\* C14: every index the interior scan of find_local_minima reports lies in
\* a run of equal values that is a local minimum, is the midpoint
\* (i + j) \div 2 of a plateau i..j that ends where the run ends, has a
\* prominence of at least min_prominence and is reported once; a series
\* of fewer than 3 samples has no minima.
C14_InteriorMinimaAreTrue ==
    /\ InteriorScanned
          => LET x == call.series
                 minima == result.minima
             IN  \A m \in 1..Len(minima) :
                    /\ TrueMinimum(x, minima[m].idx)
                    /\ \E i \in RunStart(x, minima[m].idx)..minima[m].idx :
                          minima[m].idx
                              = (i + RunEnd(x, minima[m].idx)) \div 2
                    /\ minima[m].prom >= call.o.min_prominence
                    /\ \A m2 \in 1..Len(minima) :
                          minima[m2].idx = minima[m].idx => m2 = m
    /\ (call.fn = "find_local_minima" /\ pc = "done"
           /\ Len(call.series) < 3)
          => result.minima = << >>

\* The merge loop is at a candidate that overlaps the current winner.
AtOverlap ==
    /\ pc = "merge"
    /\ next_pos <= Len(all_candidates)
    /\ Overlaps(merge.current, all_candidates[next_pos])

\* What the merge rule asks of a pass of the loop from winner c and
\* overlapping candidate n.
MergeRule(c, n) ==
    /\ pc' = "merge"
    /\ next_pos' = next_pos + 1
    /\ merge'.merged = merge.merged
    /\ IF 10 * n.depth > 11 * c.depth
       THEN /\ merge'.current = n
            /\ merge'.current_scales = << n.scale_factor >>
       ELSE IF n.depth = c.depth \/ 10 * Abs(n.depth - c.depth) < c.depth
       THEN /\ merge'.current = c
            /\ merge'.current_scales
                  = Append(merge.current_scales, n.scale_factor)
       ELSE /\ merge'.current = c
            /\ merge'.current_scales = merge.current_scales

\* C15: a pass of the merge loop over a candidate that overlaps the winner
\* makes the candidate the winner, with its scale alone recorded, when it
\* is more than 10% deeper; keeps the winner and records the candidate's
\* scale when the depths are within 10% of each other; and changes neither
\* the winner nor the recorded scales otherwise.
C15_MergeStepRule ==
    [][AtOverlap => MergeRule(merge.current, all_candidates[next_pos])]_vars

\* expand_dip_boundaries was called and is over.
ExpandOver == call.fn = "expand_dip_boundaries" /\ pc # "call"

\* C16: expand_dip_boundaries returns (start, end) with
\* 0 <= start <= min_idx <= end <= N - 1, every sample of start..end but
\* the one at min_idx strictly below the crossing level, and the sample
\* before start and the one after end, where there is one, at or above it;
\* every segment find_all_dips keeps has valid bounds.
C16_ExpandedBounds ==
    /\ ExpandOver
          => LET x == call.series
                 N == Len(x)
                 level == CrossingLevel(x, call.min_idx, call.baseline)
             IN  /\ result.raised = "none"
                 /\ 0 <= result.start
                 /\ result.start <= call.min_idx
                 /\ call.min_idx <= result.end
                 /\ result.end <= N - 1
                 /\ \A i \in result.start..result.end :
                        i # call.min_idx => At(x, i) < level
                 /\ result.start = 0 \/ At(x, result.start - 1) >= level
                 /\ result.end = N - 1 \/ At(x, result.end + 1) >= level
    /\ call.fn = "find_all_dips"
          => \A i \in 1..Len(all_candidates) :
                /\ 0 <= all_candidates[i].start
                /\ all_candidates[i].start <= all_candidates[i].end
                /\ all_candidates[i].end <= Len(call.series) - 1

\* Any two records of a sequence are more than two samples apart.
PairwiseApart(records) ==
    \A i, j \in 1..Len(records) :
        i # j => \/ records[i].end + 2 < records[j].start
                 \/ records[j].end + 2 < records[i].start

\* C17: any two records find_all_dips returns are disjoint and more than
\* the least gap tolerance apart: A.end + 2 < B.start or B.end + 2 < A.start;
\* so are any two of the merged winners, before the cut to max_dips.
C17_WinnersDisjoint ==
    /\ FindReturned => PairwiseApart(result.dips)
    /\ (call.fn = "find_all_dips" /\ pc = "rank")
          => PairwiseApart(all_candidates)

\* Two winners are returned, and the merge took the last of them from
\* several overlapping candidates.
C17_Witness ==
    /\ FindReturned
    /\ Len(result.dips) >= 2
    /\ "current" \in DOMAIN merge
    /\ Len(merge.current_scales) > 1

====
